---- MODULE Spec2Model ----
(***************************************************************************)
(* sir_logger: `setup` (src/src/lib.rs) configures the process-wide logger *)
(* of the `log` facade through a fern Dispatch and installs a panic hook.  *)
(* Each line-level step of `setup` and of the hook closure is one action,  *)
(* so that calls made by several threads interleave as in the program.     *)
(***************************************************************************)
EXTENDS Integers, Sequences, FiniteSets, TLC

\* ------------------------------------------------------------------ bounds
\* setup calls one thread may make
MaxCalls == 2
\* length of the `suppress` and `high_priority` arrays (S and H)
MaxList == 1
\* log events user code submits besides those of setup and of the hook
MaxUserLogs == 1

\* ------------------------------------------------------------ value spaces
Threads == {"t1", "t2"}

\* Log targets, by crate name: the main crate, a dependency, and this crate
\* (the target of the records lib.rs itself submits).
Namespaces == {"app", "dep", "sir_logger"}

\* log::LevelFilter, least to most verbose; a record has one of the levels
\* after Off.
LevelFilter == <<"Off", "Error", "Warn", "Info", "Debug", "Trace">>

Filters == {LevelFilter[i] : i \in 1..Len(LevelFilter)}

RecordLevels == Filters \ {"Off"}

Rank(l) == CHOOSE i \in 1..Len(LevelFilter) : LevelFilter[i] = l

\* log's level check: a record passes a filter that is at least as verbose
Enabled(filter, lvl) == Rank(lvl) <= Rank(filter)

\* Option: a string option is the text None or the value; an option of a
\* structured value is the empty sequence or Some(value)
None == "None"

Nothing == <<>>

Some(x) == <<x>>

Unwrap(o) == o[1]

\* ------------------------------------------------- RUST_LOG, text as chars
\* A text is a sequence of characters, each written as a string. "ff" is
\* the single character U+FB00 (the ligature), which is not ASCII and whose
\* upper case is the two characters FF.
LowerChars == <<"a","b","d","e","f","g","i","n","o","r","t","u","w","c","s">>

UpperChars == <<"A","B","D","E","F","G","I","N","O","R","T","U","W","C","S">>

ToUpperChar(c) ==
    IF \E i \in 1..Len(LowerChars) : LowerChars[i] = c
    THEN UpperChars[CHOOSE i \in 1..Len(LowerChars) : LowerChars[i] = c]
    ELSE c

ToLowerChar(c) ==
    IF \E i \in 1..Len(UpperChars) : UpperChars[i] = c
    THEN LowerChars[CHOOSE i \in 1..Len(UpperChars) : UpperChars[i] = c]
    ELSE c

\* char::to_uppercase: one character or several
UpperOf(c) == IF c = "ff" THEN <<"F", "F">> ELSE <<ToUpperChar(c)>>

RECURSIVE to_uppercase(_)
\* str::to_uppercase
to_uppercase(s) == IF s = <<>> THEN <<>> ELSE UpperOf(Head(s)) \o to_uppercase(Tail(s))

\* str::eq_ignore_ascii_case
eq_ignore_ascii_case(a, b) ==
    /\ Len(a) = Len(b)
    /\ \A i \in 1..Len(a) : ToLowerChar(a[i]) = ToLowerChar(b[i])

\* log's LOG_LEVEL_NAMES, in the order of LevelFilter
LOG_LEVEL_NAMES ==
    << <<"O","F","F">>, <<"E","R","R","O","R">>, <<"W","A","R","N">>,
       <<"I","N","F","O">>, <<"D","E","B","U","G">>, <<"T","R","A","C","E">> >>

\* <LevelFilter as FromStr>::from_str: the position of the name that matches
parse(s) ==
    IF \E i \in 1..Len(LOG_LEVEL_NAMES) : eq_ignore_ascii_case(LOG_LEVEL_NAMES[i], s)
    THEN LevelFilter[CHOOSE i \in 1..Len(LOG_LEVEL_NAMES) :
                        eq_ignore_ascii_case(LOG_LEVEL_NAMES[i], s)]
    ELSE None

\* lib.rs 96: the closure given to and_then
ParseRustLog(f) == parse(to_uppercase(f))

\* variant: RUST_LOG consulted before level_override
ResolveLevelEnvFirst(level_override, rust_log) ==
    IF rust_log # Nothing /\ ParseRustLog(Unwrap(rust_log)) # None
    THEN ParseRustLog(Unwrap(rust_log))
    ELSE IF level_override # None THEN level_override
    ELSE "Info"

\* lib.rs 93-98: level_override, else RUST_LOG, else Info
ResolveLevel(level_override, rust_log) ==
    IF level_override # None THEN level_override
    ELSE IF rust_log = Nothing THEN "Info"
    ELSE IF ParseRustLog(Unwrap(rust_log)) # None THEN ParseRustLog(Unwrap(rust_log))
    ELSE "Info"

\* ------------------------------------------------------------ fern Dispatch
\* Dispatch::level_for: an entry for the same module is replaced
level_for(d, module, lvl) ==
    [d EXCEPT !.levels =
        Append(SelectSeq(d.levels, LAMBDA e : e[1] # module), <<module, lvl>>)]

\* Dispatch::chain
chain(d, sink) == [d EXCEPT !.sinks = d.sinks \cup {sink}]

\* The filter fern applies to a record of `target`: the module's entry when
\* there is one, the default otherwise.
EffectiveLevel(d, target) ==
    IF \E i \in 1..Len(d.levels) : d.levels[i][1] = target
    THEN d.levels[CHOOSE i \in 1..Len(d.levels) : d.levels[i][1] = target][2]
    ELSE d.default

\* variant: the requested level for every crate
BaselineLevelVerbatim(level) == level

\* lib.rs 126-139: the default level for all crates
BaselineLevel(level) ==
    CASE level = "Trace" -> "Trace"
      [] level = "Error" -> "Error"
      [] level = "Off" -> "Off"
      [] OTHER -> "Warn"

\* variant: no level_for(root, level)
NewDispatchNoRoot(root, level) ==
    chain([default |-> BaselineLevel(level), levels |-> <<>>, sinks |-> {}], "stdout")

\* lib.rs 110-145: the Dispatch before the overrides
NewDispatch(root, level) ==
    chain(level_for([default |-> BaselineLevel(level), levels |-> <<>>, sinks |-> {}],
                    root, level),
          "stdout")

RECURSIVE ApplyAll(_, _, _, _)
\* a `for pkg in list` loop: level_for(pkg, lvl) for list[i], list[i+1], ...
ApplyAll(d, list, i, lvl) ==
    IF i > Len(list) THEN d
    ELSE ApplyAll(level_for(d, list[i], lvl), list, i + 1, lvl)

\* variant: the two loops in the other order
ApplyOverridesSuppressFirst(d, suppress, high_priority, level) ==
    ApplyAll(ApplyAll(d, suppress, 1, "Off"), high_priority, 1, level)

\* lib.rs 148-155: high_priority first, suppress second
ApplyOverrides(d, suppress, high_priority, level) ==
    ApplyAll(ApplyAll(d, high_priority, 1, level), suppress, 1, "Off")

\* lib.rs 110-155
BuildDispatch(a, level) ==
    ApplyOverrides(NewDispatch(a.root, level), a.suppress, a.high_priority, level)

\* ------------------------------------------------------------------- guard
\* lib.rs 33: a `const` item: every mention is a fresh OnceCell::new()
PREVENT_MULTI_INIT == None

\* OnceCell::get
OnceCellGet(cell) == cell

\* OnceCell::set: <<the cell afterwards, Ok or Err>>
OnceCellSet(cell) == IF cell = None THEN <<"Some", "Ok">> ELSE <<cell, "Err">>

\* ------------------------------------------------------------------- state
VARIABLES
    env,        \* RUST_LOG: Nothing (unset) or Some(its text)
    argv,       \* the arguments each thread of the process passes to setup
    pc,         \* each thread's position in setup or in the panic hook
    calls,      \* setup calls each thread has started
    local,      \* the running call's `level` and `dispatch`
    logger,     \* the logger set in the log facade: Nothing or Some
    hook,       \* the panic hook: Nothing (the default hook) or Some(id of the call that set it)
    panic,      \* the PanicHookInfo of each thread's panic
    console,    \* lines written to stdout
    logfile,    \* lines written to the log file
    exit_code,  \* Nothing while the process runs
    event,      \* the record user code submits: <<target, level>>
    user_logs,  \* how many times user code has submitted it
    completed,  \* ids of the calls that ran to the end of setup
    skipped,    \* ids of the calls that returned at the guard
    fatal,      \* where each thread's call panicked
    late,       \* the thread's call started after some call had completed
    bridge      \* what the hook has done for each thread's panic

vars == <<env, argv, pc, calls, local, logger, hook, panic, console, logfile,
          exit_code, event, user_logs, completed, skipped, fatal, late, bridge>>

\* the threads of the process
Procs == DOMAIN argv

\* the id of thread t's running (or last) call
CallId(t) == <<t, calls[t]>>

Running == exit_code = Nothing

\* ---------------------------------------------------------------- records
Record(target, lvl, msg) == [target |-> target, level |-> lvl, msg |-> msg]

\* What one sink holds after a record is submitted: fern writes the line to
\* every sink of the applied Dispatch when the target's filter lets it pass.
Emitted(lg, lines, sink, rec) ==
    IF /\ lg # Nothing
       /\ sink \in Unwrap(lg).dispatch.sinks
       /\ Enabled(EffectiveLevel(Unwrap(lg).dispatch, rec.target), rec.level)
    THEN Append(lines, rec)
    ELSE lines

\* log::warn!, debug!, error! and the like
Log(rec) ==
    /\ console' = Emitted(logger, console, "stdout", rec)
    /\ logfile' = Emitted(logger, logfile, "file", rec)

\* ------------------------------------------------------------------ panics
TextPayloads == {[kind |-> "&str", text |-> "boom"], [kind |-> "String", text |-> "boom"]}

Payloads == TextPayloads \cup {[kind |-> "other", text |-> None]}

\* variant: no downcast to String
PanicMessageStrOnly(payload) ==
    IF payload.kind = "&str" THEN payload.text ELSE "Any { .. }"

\* lib.rs 179-185: &'static str, then String, then the Debug form of dyn Any
PanicMessage(payload) ==
    IF payload.kind = "&str" THEN payload.text
    ELSE IF payload.kind = "String" THEN payload.text
    ELSE "Any { .. }"

\* A panic on thread t: the installed hook runs on t. The default hook
\* reports to stderr and the thread unwinds.
BeginPanic(t, payload, location, where) ==
    /\ panic' = [panic EXCEPT ![t] = Some([payload |-> payload, location |-> location])]
    /\ fatal' = [fatal EXCEPT ![t] = where]
    /\ pc' = [pc EXCEPT ![t] = IF hook = Nothing THEN "unwound" ELSE "hook_location"]

\* Result::unwrap and Result::expect panic with a String built by format!
ErrPayload(text) == [kind |-> "String", text |-> text]

\* -------------------------------------------------------------------- setup
\* lib.rs 78-84: thread t enters setup
Call(t) ==
    /\ Running
    /\ pc[t] = "idle"
    /\ calls[t] < MaxCalls
    /\ pc' = [pc EXCEPT ![t] = "guard"]
    /\ calls' = [calls EXCEPT ![t] = @ + 1]
    /\ late' = [late EXCEPT ![t] = completed # {}]
    /\ local' = [local EXCEPT ![t] = Nothing]
    /\ UNCHANGED <<env, argv, logger, hook, panic, console, logfile, exit_code,
                   event, user_logs, completed, skipped, fatal, bridge>>

\* lib.rs 86-89
SetupGuard(t) ==
    /\ Running
    /\ pc[t] = "guard"
    /\ IF OnceCellGet(PREVENT_MULTI_INIT) # None
       THEN /\ Log(Record("sir_logger", "Warn", "Attempted to initialize logger twice"))
            /\ skipped' = skipped \cup {CallId(t)}
            /\ pc' = [pc EXCEPT ![t] = "idle"]
       ELSE /\ pc' = [pc EXCEPT ![t] = "configure"]
            /\ UNCHANGED <<console, logfile, skipped>>
    /\ UNCHANGED <<env, argv, calls, local, logger, hook, panic, exit_code,
                   event, user_logs, completed, fatal, late, bridge>>

\* lib.rs 93-155
SetupConfigure(t) ==
    /\ Running
    /\ pc[t] = "configure"
    /\ LET level == ResolveLevel(argv[t].level_override, env)
       IN local' = [local EXCEPT ![t] =
                       Some([level |-> level, dispatch |-> BuildDispatch(argv[t], level)])]
    /\ pc' = [pc EXCEPT ![t] = "log_file"]
    /\ UNCHANGED <<env, argv, calls, logger, hook, panic, console, logfile, exit_code,
                   event, user_logs, completed, skipped, fatal, late, bridge>>

\* variant: the file is opened after the Dispatch without it was applied
SetupLogFileAfterApply(t) ==
    /\ Running
    /\ pc[t] = "log_file"
    /\ \/ /\ argv[t].log_file = None
          /\ pc' = [pc EXCEPT ![t] = "apply"]
          /\ UNCHANGED <<local, logger, panic, fatal>>
       \/ /\ argv[t].log_file # None
          /\ local' = [local EXCEPT ![t] = Some([Unwrap(@) EXCEPT !.dispatch = chain(@, "file")])]
          /\ pc' = [pc EXCEPT ![t] = "apply"]
          /\ UNCHANGED <<logger, panic, fatal>>
       \/ /\ argv[t].log_file # None
          /\ logger = Nothing
          /\ logger' = Some([dispatch |-> Unwrap(local[t]).dispatch,
                             level |-> Unwrap(local[t]).level,
                             owner |-> CallId(t), args |-> argv[t]])
          /\ BeginPanic(t, ErrPayload("unwrap: io::Error"), TRUE, "log_file")
          /\ UNCHANGED local
    /\ UNCHANGED <<env, argv, calls, hook, console, logfile, exit_code,
                   event, user_logs, completed, skipped, late, bridge>>

\* lib.rs 158-160: fern::log_file opens the file or fails, and unwrap panics
SetupLogFile(t) ==
    /\ Running
    /\ pc[t] = "log_file"
    /\ \/ /\ argv[t].log_file = None
          /\ pc' = [pc EXCEPT ![t] = "apply"]
          /\ UNCHANGED <<local, panic, fatal>>
       \/ /\ argv[t].log_file # None
          /\ local' = [local EXCEPT ![t] = Some([Unwrap(@) EXCEPT !.dispatch = chain(@, "file")])]
          /\ pc' = [pc EXCEPT ![t] = "apply"]
          /\ UNCHANGED <<panic, fatal>>
       \/ /\ argv[t].log_file # None
          /\ BeginPanic(t, ErrPayload("unwrap: io::Error"), TRUE, "log_file")
          /\ UNCHANGED local
    /\ UNCHANGED <<env, argv, calls, logger, hook, console, logfile, exit_code,
                   event, user_logs, completed, skipped, late, bridge>>

\* variant: set_hook moved before apply, so that a call whose apply fails
\* has installed its hook
SetupApplyAfterHook(t) ==
    /\ Running
    /\ pc[t] = "apply"
    /\ hook' = Some(CallId(t))
    /\ IF logger = Nothing
       THEN /\ logger' = Some([dispatch |-> Unwrap(local[t]).dispatch,
                               level |-> Unwrap(local[t]).level,
                               owner |-> CallId(t), args |-> argv[t]])
            /\ pc' = [pc EXCEPT ![t] = "set_hook"]
            /\ UNCHANGED <<panic, fatal>>
       ELSE /\ panic' = [panic EXCEPT ![t] =
                            Some([payload |-> ErrPayload("unwrap: SetLoggerError"),
                                  location |-> TRUE])]
            /\ fatal' = [fatal EXCEPT ![t] = "apply"]
            /\ pc' = [pc EXCEPT ![t] = "hook_location"]
            /\ UNCHANGED logger
    /\ UNCHANGED <<env, argv, calls, local, console, logfile, exit_code,
                   event, user_logs, completed, skipped, late, bridge>>

\* variant: the logger is replaced by every apply
SetupApplyOverwrite(t) ==
    /\ Running
    /\ pc[t] = "apply"
    /\ logger' = Some([dispatch |-> Unwrap(local[t]).dispatch,
                       level |-> Unwrap(local[t]).level,
                       owner |-> CallId(t), args |-> argv[t]])
    /\ pc' = [pc EXCEPT ![t] = "set_hook"]
    /\ UNCHANGED <<env, argv, calls, local, hook, panic, console, logfile, exit_code,
                   event, user_logs, completed, skipped, fatal, late, bridge>>

\* lib.rs 163: Dispatch::apply is log::set_logger, which succeeds once per
\* process; unwrap panics on SetLoggerError
SetupApply(t) ==
    /\ Running
    /\ pc[t] = "apply"
    /\ IF logger = Nothing
       THEN /\ logger' = Some([dispatch |-> Unwrap(local[t]).dispatch,
                               level |-> Unwrap(local[t]).level,
                               owner |-> CallId(t), args |-> argv[t]])
            /\ pc' = [pc EXCEPT ![t] = "set_hook"]
            /\ UNCHANGED <<panic, fatal>>
       ELSE /\ BeginPanic(t, ErrPayload("unwrap: SetLoggerError"), TRUE, "apply")
            /\ UNCHANGED logger
    /\ UNCHANGED <<env, argv, calls, local, hook, console, logfile, exit_code,
                   event, user_logs, completed, skipped, late, bridge>>

\* lib.rs 167-191: panic::set_hook
SetupSetHook(t) ==
    /\ Running
    /\ pc[t] = "set_hook"
    /\ hook' = Some(CallId(t))
    /\ pc' = [pc EXCEPT ![t] = "set_guard"]
    /\ UNCHANGED <<env, argv, calls, local, logger, panic, console, logfile, exit_code,
                   event, user_logs, completed, skipped, fatal, late, bridge>>

\* lib.rs 194-196: set on the cell this mention of the const creates
SetupSetGuard(t) ==
    /\ Running
    /\ pc[t] = "set_guard"
    /\ IF OnceCellSet(PREVENT_MULTI_INIT)[2] = "Ok"
       THEN /\ completed' = completed \cup {CallId(t)}
            /\ pc' = [pc EXCEPT ![t] = "idle"]
            /\ UNCHANGED <<panic, fatal>>
       ELSE /\ BeginPanic(t, ErrPayload("Unable to set initialized flag: ()"), TRUE, "guard")
            /\ UNCHANGED completed
    /\ UNCHANGED <<env, argv, calls, local, logger, hook, console, logfile, exit_code,
                   event, user_logs, skipped, late, bridge>>

\* ------------------------------------------------------------ the panic hook
\* lib.rs 169-175
HookLocation(t) ==
    /\ Running
    /\ pc[t] = "hook_location"
    /\ IF Unwrap(panic[t]).location
       THEN /\ Log(Record("sir_logger", "Debug", "panic occurred in file"))
            /\ bridge' = [bridge EXCEPT ![t] = Append(@, "debug")]
       ELSE UNCHANGED <<console, logfile, bridge>>
    /\ pc' = [pc EXCEPT ![t] = "hook_message"]
    /\ UNCHANGED <<env, argv, calls, local, logger, hook, panic, exit_code,
                   event, user_logs, completed, skipped, fatal, late>>

\* lib.rs 179-187
HookMessage(t) ==
    /\ Running
    /\ pc[t] = "hook_message"
    /\ Log(Record("sir_logger", "Error", PanicMessage(Unwrap(panic[t]).payload)))
    /\ bridge' = [bridge EXCEPT ![t] = Append(@, "error")]
    /\ pc' = [pc EXCEPT ![t] = "hook_exit"]
    /\ UNCHANGED <<env, argv, calls, local, logger, hook, panic, exit_code,
                   event, user_logs, completed, skipped, fatal, late>>

\* variant: the hook returns instead of exiting, and the thread unwinds
HookReturn(t) ==
    /\ Running
    /\ pc[t] = "hook_exit"
    /\ pc' = [pc EXCEPT ![t] = "unwound"]
    /\ UNCHANGED <<env, argv, calls, local, logger, hook, panic, console, logfile,
                   exit_code, event, user_logs, completed, skipped, fatal, late, bridge>>

\* lib.rs 190: std::process::exit(1)
HookExit(t) ==
    /\ Running
    /\ pc[t] = "hook_exit"
    /\ exit_code' = Some(1)
    /\ bridge' = [bridge EXCEPT ![t] = Append(@, "exit")]
    /\ pc' = [pc EXCEPT ![t] = "exited"]
    /\ UNCHANGED <<env, argv, calls, local, logger, hook, panic, console, logfile,
                   event, user_logs, completed, skipped, fatal, late>>

\* ----------------------------------------------------------------- user code
\* A panic in user code on thread t, outside setup
UserPanic(t) ==
    /\ Running
    /\ pc[t] = "idle"
    /\ \E payload \in Payloads, location \in BOOLEAN :
          BeginPanic(t, payload, location, "user")
    /\ UNCHANGED <<env, argv, calls, local, logger, hook, console, logfile, exit_code,
                   event, user_logs, completed, skipped, late, bridge>>

\* User code on thread t, outside setup, submits its record
UserLog(t) ==
    /\ Running
    /\ pc[t] = "idle"
    /\ user_logs < MaxUserLogs
    /\ Log(Record(event[1], event[2], "event"))
    /\ user_logs' = user_logs + 1
    /\ UNCHANGED <<env, argv, pc, calls, local, logger, hook, panic, exit_code, event,
                   completed, skipped, fatal, late, bridge>>

\* ------------------------------------------------------------ specifications
Lists == UNION {[1..n -> Namespaces] : n \in 0..MaxList}

Args == [level_override : Filters \cup {None}, suppress : Lists, high_priority : Lists,
         log_file : {None, "Some"}, root : Namespaces]

\* the arguments of the concurrent specification
RaceArgs ==
    {[level_override |-> "Info", suppress |-> <<>>, high_priority |-> <<>>,
      log_file |-> None, root |-> "app"],
     [level_override |-> None, suppress |-> <<"dep">>, high_priority |-> <<"sir_logger">>,
      log_file |-> "Some", root |-> "app"]}

RaceEnv == {Nothing, Some(<<"t","r","a","c","e">>)}

Events == Namespaces \X RecordLevels

RaceEvents == {<<"app", "Debug">>, <<"dep", "Error">>}

InitWith(envs, argvs, events) ==
    /\ env \in envs
    /\ argv \in argvs
    /\ event \in events
    /\ pc = [t \in DOMAIN argv |-> "idle"]
    /\ calls = [t \in DOMAIN argv |-> 0]
    /\ local = [t \in DOMAIN argv |-> Nothing]
    /\ logger = Nothing
    /\ hook = Nothing
    /\ panic = [t \in DOMAIN argv |-> Nothing]
    /\ console = <<>>
    /\ logfile = <<>>
    /\ exit_code = Nothing
    /\ user_logs = 0
    /\ completed = {}
    /\ skipped = {}
    /\ fatal = [t \in DOMAIN argv |-> None]
    /\ late = [t \in DOMAIN argv |-> FALSE]
    /\ bridge = [t \in DOMAIN argv |-> <<>>]

\* two threads, each with its own arguments
Init == InitWith(RaceEnv, [Threads -> RaceArgs], RaceEvents)

\* one thread, every level, override list and log file; the root is this
\* crate or another one (the names of the other crates are interchangeable)
RoutingArgs == {a \in Args : a.level_override # None /\ a.root \in {"app", "sir_logger"}}

InitRouting == InitWith({Nothing}, [{"t1"} -> RoutingArgs], Events)

\* one thread, every level_override with every RUST_LOG
EnvTexts ==
    {<<>>, <<"o","f","f">>, <<"E","r","r","o","r">>, <<"w","A","R","n">>,
     <<"I","N","F","O">>, <<"d","e","b","u","g">>, <<"T","r","a","c","E">>,
     <<"w","a","r","n","i","n","g">>, <<"d","e","b","u">>, <<"1">>, <<"o","ff">>,
     <<"o","f">>}

LevelArgs ==
    {a \in Args : a.suppress = <<>> /\ a.high_priority = <<>> /\ a.log_file = None
                   /\ a.root = "app"}

InitLevel ==
    InitWith({Nothing} \cup {Some(x) : x \in EnvTexts}, [{"t1"} -> LevelArgs],
             {<<"app", "Info">>})

Next ==
    \/ \E t \in Procs : Call(t)
    \/ \E t \in Procs : SetupGuard(t)
    \/ \E t \in Procs : SetupConfigure(t)
    \/ \E t \in Procs : SetupLogFile(t)
    \/ \E t \in Procs : SetupApply(t)
    \/ \E t \in Procs : SetupSetHook(t)
    \/ \E t \in Procs : SetupSetGuard(t)
    \/ \E t \in Procs : HookLocation(t)
    \/ \E t \in Procs : HookMessage(t)
    \/ \E t \in Procs : HookExit(t)
    \/ \E t \in Procs : UserPanic(t)
    \/ \E t \in Procs : UserLog(t)

Spec == Init /\ [][Next]_vars

SpecRouting == InitRouting /\ [][Next]_vars

SpecLevel == InitLevel /\ [][Next]_vars


FairSpec ==
    /\ Spec
    /\ \A t \in Threads : WF_vars(HookLocation(t) \/ HookMessage(t) \/ HookExit(t))

\* ------------------------------------------------------- derived quantities
Range(list) == {list[i] : i \in 1..Len(list)}

Applied == Unwrap(logger)

\* the ids of the calls whose Dispatch is the logger / whose closure is the hook
LoggerOwner == IF logger = Nothing THEN {} ELSE {Applied.owner}

HookOwner == IF hook = Nothing THEN {} ELSE {Unwrap(hook)}

InSetup(t) == pc[t] \in {"guard", "configure", "log_file", "apply", "set_hook", "set_guard"}

InHook(t) == pc[t] \in {"hook_location", "hook_message", "hook_exit"}

\* the lines of `after` that follow those of `before`
Added(before, after) == SubSeq(after, Len(before) + 1, Len(after))

\* ------------------------------------------------------------------- claims
\* C1 (as claimed): once a call to setup has completed, the init guard reads
\* as set, and every call started later returns at the guard check: it never
\* goes on to configure, apply or panic.
C1_GuardStopsLaterCalls ==
    /\ completed # {} => OnceCellGet(PREVENT_MULTI_INIT) # None
    /\ \A t \in Procs : late[t] /\ CallId(t) \notin skipped => pc[t] = "guard"

\* C2: once a logger is applied it is never replaced, once a hook is
\* installed it is never replaced, both come from the same call, which is
\* the only call that completes, and a step writes at most one line to
\* stdout and the same line to the log file exactly when the applied
\* Dispatch has the file sink.
C2_FirstCallConfigures ==
    [][/\ logger # Nothing => logger' = logger
       /\ hook # Nothing => hook' = hook
       /\ HookOwner' \subseteq LoggerOwner'
       /\ completed' \subseteq HookOwner'
       /\ SubSeq(console', 1, Len(console)) = console
       /\ SubSeq(logfile', 1, Len(logfile)) = logfile
       /\ Len(Added(console, console')) <= 1
       /\ Added(logfile, logfile') =
             IF logger # Nothing /\ "file" \in Applied.dispatch.sinks
             THEN Added(console, console')
             ELSE <<>>]_vars

\* C2 witness: a call started after the first one completed has failed at
\* apply, the logger and hook are still the first call's, and the log file
\* has received a line.
C2_Witness ==
    \E t \in Procs :
        /\ late[t]
        /\ fatal[t] = "apply"
        /\ LoggerOwner = completed
        /\ HookOwner = completed
        /\ Len(logfile) > 0
        /\ logfile = console

\* The level a case-insensitive reading of RUST_LOG names, by folding the
\* text to lower case (Unicode case folding: the ligature folds to ff) and
\* comparing it with the lower-case names.
LowerNames ==
    [l \in Filters |->
        CASE l = "Off" -> <<"o","f","f">>
          [] l = "Error" -> <<"e","r","r","o","r">>
          [] l = "Warn" -> <<"w","a","r","n">>
          [] l = "Info" -> <<"i","n","f","o">>
          [] l = "Debug" -> <<"d","e","b","u","g">>
          [] l = "Trace" -> <<"t","r","a","c","e">>]

RECURSIVE Folded(_)
Folded(text) ==
    IF text = <<>> THEN <<>>
    ELSE (IF Head(text) = "ff" THEN <<"f", "f">> ELSE <<ToLowerChar(Head(text))>>)
            \o Folded(Tail(text))

ExpectedLevel(level_override, rust_log) ==
    IF level_override # None THEN level_override
    ELSE IF rust_log # Nothing /\ \E l \in Filters : LowerNames[l] = Folded(Unwrap(rust_log))
         THEN CHOOSE l \in Filters : LowerNames[l] = Folded(Unwrap(rust_log))
         ELSE "Info"

\* C3: the level a call resolves, and the level of the logger it applies, is
\* level_override when given, whatever RUST_LOG holds; otherwise the level
\* RUST_LOG names case-insensitively; otherwise Info.
C3_LevelResolution ==
    /\ \A t \in Procs :
          local[t] # Nothing =>
              Unwrap(local[t]).level = ExpectedLevel(argv[t].level_override, env)
    /\ logger # Nothing =>
          Applied.level = ExpectedLevel(Applied.args.level_override, env)

\* C3 witness: no override, RUST_LOG holds a mixed-case name, and the logger
\* applied has that level.
C3_Witness ==
    /\ logger # Nothing
    /\ Applied.args.level_override = None
    /\ env = Some(<<"T","r","a","c","E">>)
    /\ Applied.level = "Trace"

\* a namespace that is neither the root nor in either override list
Plain(ns, a) == ns # a.root /\ ns \notin Range(a.suppress) /\ ns \notin Range(a.high_priority)

ExpectedBaseline(level) == IF level \in {"Trace", "Error", "Off"} THEN level ELSE "Warn"

\* C4: in the applied routing table every namespace that is neither the
\* root nor overridden has the resolved level when that is Trace, Error or
\* Off, and Warn otherwise; and a record user code submits from such a
\* namespace is written exactly when that baseline lets its level pass.
C4_Baseline ==
    [][/\ logger' # Nothing =>
            \A ns \in Namespaces :
                Plain(ns, Applied'.args) =>
                    EffectiveLevel(Applied'.dispatch, ns) = ExpectedBaseline(Applied'.level)
       /\ (user_logs' # user_logs /\ logger # Nothing /\ Plain(event[1], Applied.args)) =>
            (Added(console, console') = <<Record(event[1], event[2], "event")>>
                <=> Rank(event[2]) <= Rank(ExpectedBaseline(Applied.level)))]_vars

\* C4 witness: level Info, and a Debug record from a plain namespace was
\* submitted after setup and not written, while the table holds Warn for it.
C4_Witness ==
    /\ logger # Nothing
    /\ Applied.level = "Info"
    /\ event = <<"dep", "Debug">>
    /\ Plain("dep", Applied.args)
    /\ EffectiveLevel(Applied.dispatch, "dep") = "Warn"
    /\ completed # {}
    /\ user_logs > 0
    /\ console = <<>>

\* C5 (as claimed): after setup the effective severity of the root is the
\* resolved level, for every choice of the override lists.
C5_RootAlwaysLevel ==
    logger # Nothing => EffectiveLevel(Applied.dispatch, Applied.args.root) = Applied.level

\* C5 (amended): the effective severity of the root is the resolved level
\* unless the root is in the suppress list, and Off when it is; the
\* records written from the root pass that severity.
C5_RootLevelUnlessSuppressed ==
    logger # Nothing =>
        LET a == Applied.args
            expected == IF a.root \in Range(a.suppress) THEN "Off" ELSE Applied.level
        IN /\ EffectiveLevel(Applied.dispatch, a.root) = expected
           /\ \A i \in 1..Len(console) :
                 console[i].target = a.root /\ console[i].msg = "event" =>
                     Rank(console[i].level) <= Rank(expected)

\* C5 witness: level Debug, root app not suppressed, and a Debug record
\* from app has been written.
C5_Witness ==
    /\ logger # Nothing
    /\ Applied.level = "Debug"
    /\ Applied.args.root = "app"
    /\ "app" \notin Range(Applied.args.suppress)
    /\ Record("app", "Debug", "event") \in Range(console)

\* C6: in the applied routing table a namespace only in high_priority has
\* the resolved level, and a namespace in suppress has Off, also when it is
\* in high_priority too.
C6_OverridePrecedence ==
    logger # Nothing =>
        \A ns \in Namespaces :
            /\ (ns \in Range(Applied.args.high_priority)
                  /\ ns \notin Range(Applied.args.suppress)) =>
                   EffectiveLevel(Applied.dispatch, ns) = Applied.level
            /\ ns \in Range(Applied.args.suppress) =>
                   EffectiveLevel(Applied.dispatch, ns) = "Off"

\* C6 witness: a namespace in both lists is Off while the level is not.
C6_Witness ==
    /\ logger # Nothing
    /\ Applied.level = "Debug"
    /\ "dep" \in Range(Applied.args.high_priority)
    /\ "dep" \in Range(Applied.args.suppress)
    /\ EffectiveLevel(Applied.dispatch, "dep") = "Off"
    /\ completed # {}

\* the Error record of thread t's panic is among the lines of a sink: for a
\* text payload the record with that text, for any other payload an Error
\* record of this crate
HookRecordIn(lines, t) ==
    LET payload == Unwrap(panic[t]).payload
    IN IF payload.kind \in {"&str", "String"}
       THEN Record("sir_logger", "Error", payload.text) \in Range(lines)
       ELSE \E i \in 1..Len(lines) :
               /\ lines[i].target = "sir_logger"
               /\ lines[i].level = "Error"
               /\ lines[i].msg # "event"

HookLogged(t) == pc[t] \in {"hook_exit", "exited"}

\* C7 (as claimed): whatever the configuration, once the hook has logged the
\* panic of a thread, and so before the process exits, the Error record of
\* the panic has been written.
C7_PanicAlwaysWritten ==
    \A t \in Procs : HookLogged(t) => HookRecordIn(console, t)

\* C7 (amended): the Error record of the panic has been written before the
\* process exits exactly when the routing table does not hold Off for this
\* crate's namespace, sir_logger; and then it is in the log file too when
\* there is one.
C7_PanicWrittenUnlessOff ==
    \A t \in Procs :
        HookLogged(t) =>
            /\ HookRecordIn(console, t)
                  <=> EffectiveLevel(Applied.dispatch, "sir_logger") # "Off"
            /\ "file" \in Applied.dispatch.sinks => logfile = console
            /\ "file" \notin Applied.dispatch.sinks => logfile = <<>>

\* C7 witness: the panic of a String payload has been logged and written.
C7_Witness ==
    \E t \in Procs :
        /\ pc[t] = "hook_exit"
        /\ fatal[t] = "user"
        /\ Unwrap(panic[t]).payload = [kind |-> "String", text |-> "boom"]
        /\ Record("sir_logger", "Error", "boom") \in Range(console)
        /\ Applied.level = "Warn"

\* what the hook does for a panic, in order
BridgeSteps(info) ==
    IF info.location THEN <<"debug", "error", "exit">> ELSE <<"error", "exit">>

\* The hook's steps so far are the first steps of: the location record when
\* there is a location, the Error record, the exit; a panic that does not
\* run the hook does none; and the process only ever exits with status 1,
\* after a hook went through all of them.
BridgeOrder ==
    /\ \A t \in Threads :
          /\ panic[t] = Nothing => bridge[t] = <<>>
          /\ panic[t] # Nothing =>
                /\ Len(bridge[t]) <= Len(BridgeSteps(Unwrap(panic[t])))
                /\ bridge[t] = SubSeq(BridgeSteps(Unwrap(panic[t])), 1, Len(bridge[t]))
          /\ pc[t] = "unwound" => bridge[t] = <<>>
    /\ exit_code # Nothing =>
          /\ exit_code = Some(1)
          /\ \E t \in Threads :
                panic[t] # Nothing /\ bridge[t] = BridgeSteps(Unwrap(panic[t]))

\* a panic that begins once a setup has completed runs the hook
PanicRunsHook ==
    \A t \in Threads :
        (completed # {} /\ panic[t] = Nothing /\ panic'[t] # Nothing) =>
            pc'[t] = "hook_location"

\* C8: once a setup has completed every panic runs the hook, whatever its
\* payload and with or without a location; the steps of the hook come in
\* the order location record, Error record, exit; and every panic that runs
\* the hook leads to the exit of the process with status 1.
C8_PanicBridge ==
    /\ []BridgeOrder
    /\ [][PanicRunsHook]_vars
    /\ \A t \in Threads : InHook(t) ~> (exit_code = Some(1))

\* C8 witness: a panic without location and with a payload that is no text
\* has ended the process, after a setup completed.
C8_Witness ==
    \E t \in Threads :
        /\ exit_code = Some(1)
        /\ completed # {}
        /\ fatal[t] = "user"
        /\ Unwrap(panic[t]).payload.kind = "other"
        /\ ~Unwrap(panic[t]).location
        /\ bridge[t] = <<"error", "exit">>

\* C9: a call that panicked at the file open has neither applied its
\* Dispatch nor installed its hook, a call that panicked at apply has not
\* installed its hook, and neither has completed or returned.
C9_NoPartialLogger ==
    \A t \in Procs :
        /\ fatal[t] = "log_file" => CallId(t) \notin LoggerOwner
        /\ fatal[t] \in {"log_file", "apply"} =>
              /\ CallId(t) \notin HookOwner
              /\ CallId(t) \notin completed \cup skipped
              /\ OnceCellGet(PREVENT_MULTI_INIT) = None
              /\ pc[t] \in {"unwound", "hook_location", "hook_message", "hook_exit", "exited"}

\* C9 witness: one call failed at the file open with nothing configured and
\* another failed at apply.
C9_Witness ==
    \E t, u \in Procs :
        /\ fatal[t] = "log_file"
        /\ pc[t] = "unwound"
        /\ fatal[u] = "apply"
        /\ CallId(t) \notin LoggerOwner

\* C10: at most one call ever completes, it is the call whose Dispatch was
\* applied and whose hook is installed, and any other call that got past
\* the guard and the file open is still running or has panicked at apply or
\* at the guard commit.
C10_RaceOneWinner ==
    /\ Cardinality(completed) <= 1
    /\ completed \subseteq HookOwner
    /\ HookOwner \subseteq LoggerOwner
    /\ \A t \in Procs :
          (calls[t] > 0 /\ CallId(t) \notin LoggerOwner /\ fatal[t] # "log_file") =>
              /\ CallId(t) \notin completed \cup skipped
              /\ InSetup(t) \/ fatal[t] \in {"apply", "guard"}

\* C10 witness: two first calls both got past the guard check before either
\* reached the guard commit; one has panicked at apply and the other is
\* about to commit the guard.
C10_Witness ==
    \E t, u \in Procs :
        /\ t # u
        /\ calls[t] = 1 /\ calls[u] = 1
        /\ pc[t] = "set_guard"
        /\ fatal[u] = "apply"
        /\ ~late[u]

====
